---- MODULE Spec2Model ----
(***************************************************************************)
(* Model of server.py: the upload / gallery service.                       *)
(*                                                                         *)
(* State: the upload tree, the thumbnail directory, the three files the    *)
(* metadata store uses (photo_metadata.json, its .tmp and its .backup),    *)
(* and one record of locals per request thread.  Names are sequences of    *)
(* one-character strings so that the f-string concatenations of the code   *)
(* (identifiers, thumbnail names, the _1, _2 suffixes) are computed as the  *)
(* code computes them.                                                     *)
(***************************************************************************)
EXTENDS Integers, Sequences, FiniteSets, TLC

\* ------------------------------------------------------------------ bounds
NThreads == 2
MaxClock == 1
MaxUploads == 2
MaxExt == 2
MaxReq == 3
MaxFaults == 1

\* Program constant: the longest folder name sanitize_foldername accepts.
MaxFolderLen == 100

\* ------------------------------------------------------------- characters
LowerLetters == {"a", "b", "c", "d", "e", "f", "g", "i", "j", "m", "n", "p", "s", "t", "v", "w", "x"}
UpperLetters == {"J", "P", "G"}
DigitChars == <<"0", "1", "2", "3", "4", "5", "6", "7", "8", "9">>
DigitSet == {DigitChars[i] : i \in 1..10}

\* the characters c with c.isalnum()
AlnumSet == LowerLetters \cup UpperLetters \cup DigitSet

\* str.lower() on one character
LowerChar(c) == CASE c = "J" -> "j" [] c = "P" -> "p" [] c = "G" -> "g" [] OTHER -> c

Lower(s) == [i \in 1..Len(s) |-> LowerChar(s[i])]

\* "".join(c for c in s if keep(c))
RECURSIVE FilterChars(_, _)
FilterChars(s, keep) == IF s = <<>> THEN <<>> ELSE (IF Head(s) \in keep THEN <<Head(s)>> ELSE <<>>) \o FilterChars(Tail(s), keep)

\* str.lstrip / str.rstrip / str.strip over a set of characters
RECURSIVE LStrip(_, _)
LStrip(s, cs) == IF s # <<>> /\ Head(s) \in cs THEN LStrip(Tail(s), cs) ELSE s

RECURSIVE RStrip(_, _)
RStrip(s, cs) == IF s # <<>> /\ s[Len(s)] \in cs THEN RStrip(SubSeq(s, 1, Len(s) - 1), cs) ELSE s

Strip(s, cs) == RStrip(LStrip(s, cs), cs)

\* str(n) for a non-negative int
RECURSIVE IntStr(_)
IntStr(n) == IF n < 10 THEN <<DigitChars[n + 1]>> ELSE IntStr(n \div 10) \o <<DigitChars[(n % 10) + 1]>>

\* str(x) for a float timestamp with no fractional part, as the f-strings print it
FloatStr(n) == IntStr(n) \o <<".", "0">>

\* the index of the last "." of s, 0 when there is none
LastDot(s) == IF \E i \in 1..Len(s) : s[i] = "." THEN CHOOSE i \in 1..Len(s) : s[i] = "." /\ \A j \in (i + 1)..Len(s) : s[j] # "." ELSE 0

\* os.path.splitext: (root, ext); leading dots are not an extension
SplitExt(s) == LET i == LastDot(s) IN IF i = 0 \/ (\A j \in 1..(i - 1) : s[j] = ".") THEN <<s, <<>>>> ELSE <<SubSeq(s, 1, i - 1), SubSeq(s, i, Len(s))>>

\* ------------------------------------------------------------ sanitization
ImageExtensions == {<<"j", "p", "g">>, <<"j", "p", "e", "g">>, <<"p", "n", "g">>, <<"g", "i", "f">>, <<"b", "m", "p">>, <<"w", "e", "b", "p">>, <<"t", "i", "f", "f">>, <<"s", "v", "g">>}

is_image(filename) == IF filename = <<>> \/ LastDot(filename) = 0 THEN FALSE ELSE Lower(SubSeq(filename, LastDot(filename) + 1, Len(filename))) \in ImageExtensions

\* "_".join(s.split()): runs of blanks become one "_", blanks at the ends vanish
RECURSIVE JoinWords(_)
JoinWords(s) == LET t == LStrip(s, {" "}) IN IF t = <<>> THEN <<>> ELSE <<Head(t)>> \o (IF Tail(t) # <<>> /\ Head(Tail(t)) = " " /\ LStrip(Tail(t), {" "}) # <<>> THEN <<"_">> ELSE <<>>) \o JoinWords(Tail(t))

\* werkzeug.utils.secure_filename: separators to blanks, words joined by "_",
\* everything but [A-Za-z0-9_.-] dropped, "." and "_" stripped from the ends
secure_filename(filename) == Strip(FilterChars(JoinWords([i \in 1..Len(filename) |-> IF filename[i] = "/" THEN " " ELSE filename[i]]), AlnumSet \cup {"_", ".", "-"}), {".", "_"})

None == <<"None">>

sanitize_filename(filename) == IF filename = <<>> THEN None ELSE LET f == FilterChars(secure_filename(filename), AlnumSet \cup {"_", "-", "."}) IN IF f = <<>> \/ LastDot(f) = 0 THEN None ELSE f

sanitize_foldername(foldername) == IF foldername = <<>> THEN None ELSE LET f == Strip(FilterChars(foldername, AlnumSet \cup {"_", "-", " "}), {" "}) IN IF f = <<>> \/ Len(f) > MaxFolderLen THEN None ELSE f


\* ------------------------------------------------------------------ inputs
\* The multipart forms a client may post: [foldername, filename, description].
Forms == {[foldername |-> <<"a", "_", "b">>, filename |-> <<"c", ".", "j", "p", "g">>, description |-> <<"d">>], [foldername |-> <<" ", "a", "/">>, filename |-> <<"b", " ", "c", ".", "j", "p", "g">>, description |-> <<>>], [foldername |-> <<"a">>, filename |-> <<"n", ".", "t", "x", "t">>, description |-> <<"d">>], [foldername |-> <<"/">>, filename |-> <<"c", ".", "j", "p", "g">>, description |-> <<>>], [foldername |-> <<"a">>, filename |-> <<"c">>, description |-> <<>>], [foldername |-> <<" ">>, filename |-> <<"c", ".", "j", "p", "g">>, description |-> <<>>], [foldername |-> <<"a">>, filename |-> <<>>, description |-> <<>>]}

Threads == 1..NThreads

\* ------------------------------------------------------------------- state
VARIABLES
  clock,      \* the system clock, in the unit of the timestamps
  files,      \* the upload tree: <<folder, filename>> -> [mtime, content]
  thumbs,     \* the thumbnail directory: thumbnail file name -> what it shows
  names,      \* photo_metadata.json ("meta"), its .tmp and its .backup
  fd,         \* per thread: the file its open handle is on, "none" when closed
  listRev,    \* the (stable) order in which os.listdir lists a directory
  th,         \* per request thread: its position and locals
  nUp,        \* uploads accepted so far
  nExt,       \* changes made to the files from outside the server so far
  nReq,       \* requests accepted so far
  nFaults,    \* operations the environment has made fail so far
  saved,      \* history: <<path, content>> of every file.save
  savedOk,    \* history: data, the mapping of the last save_metadata that returned
              \* True; last, the mapping of the last save_metadata that returned
  okUploads,  \* history: uploads answered 200
  prevScan    \* history: the previous gallery scan, forgotten when the files change

vars == <<clock, files, thumbs, names, fd, listRev, th, nUp, nExt, nReq, nFaults, saved, savedOk, okUploads, prevScan>>

\* --------------------------------------------------------------- mappings
EmptyMap == [k \in {} |-> None]

\* metadata[file_id] = record
Put(m, k, v) == [x \in DOMAIN m \cup {k} |-> IF x = k THEN v ELSE m[x]]

\* ---------------------------------------------------- the metadata files
\* json.dump(data, f, indent=2): the document reaches the file in two writes
Dump(data) == <<[kind |-> "doc", doc |-> data, part |-> 1], [kind |-> "doc", doc |-> data, part |-> 2]>>

\* json.load on the bytes of a file: what it returns or raises
Parse(content) == IF Len(content) = 2 /\ content[1].kind = "doc" /\ content = Dump(content[1].doc) THEN [is |-> "dict", data |-> content[1].doc] ELSE IF Len(content) = 1 /\ content[1].kind = "nondict" THEN [is |-> "nondict", data |-> EmptyMap] ELSE IF Len(content) = 1 /\ content[1].kind = "badutf8" THEN [is |-> "Exception", data |-> EmptyMap] ELSE [is |-> "JSONDecodeError", data |-> EmptyMap]

Absent == [exists |-> FALSE, content |-> <<>>]

Exists(name) == names[name].exists

\* An open handle stays with its file when the file is renamed; "orphan" is a
\* file that has lost its name: nothing can read it any more.
\* os.rename / os.replace of src onto dst, seen from a handle on h
Renamed(h, src, dst) == IF h = src THEN dst ELSE IF h = dst THEN "orphan" ELSE h

\* os.remove of name, seen from a handle on h
Removed(h, name) == IF h = name THEN "orphan" ELSE h

NoBytes == [some |-> FALSE, content |-> <<>>]

\* load_metadata(): the mapping returned; saw is the content json.load could not
\* read, renamed whether that content went to the backup name.
\* renameOk: whether os.rename succeeds.
load_metadata(renameOk) == IF ~Exists("meta") THEN [data |-> EmptyMap, saw |-> NoBytes, tried |-> FALSE, renamed |-> FALSE] ELSE LET p == Parse(names["meta"].content) IN IF p.is = "dict" THEN [data |-> p.data, saw |-> NoBytes, tried |-> FALSE, renamed |-> FALSE] ELSE IF p.is = "JSONDecodeError" THEN [data |-> EmptyMap, saw |-> [some |-> TRUE, content |-> names["meta"].content], tried |-> TRUE, renamed |-> renameOk] ELSE [data |-> EmptyMap, saw |-> IF p.is = "Exception" THEN [some |-> TRUE, content |-> names["meta"].content] ELSE NoBytes, tried |-> FALSE, renamed |-> FALSE]

\* Variant of Backup for comparison: the corrupt file is removed, not renamed
BackupRemoves(r) == /\ names' = IF r.renamed THEN [names EXCEPT !["meta"] = Absent] ELSE names
                    /\ fd' = IF r.renamed THEN [u \in Threads |-> Removed(fd[u], "meta")] ELSE fd

\* line 60, when it ran: the corrupt file now has the backup name
Backup(r) == /\ names' = IF r.renamed THEN [names EXCEPT !["backup"] = names["meta"], !["meta"] = Absent] ELSE names
             /\ fd' = IF r.renamed THEN [u \in Threads |-> Renamed(fd[u], "meta", "backup")] ELSE fd

\* ------------------------------------------------------------ the threads
IdleLocals == [pc |-> "idle", kind |-> "none", foldername |-> None, filename |-> None, base_filename |-> None, counter |-> 0, content |-> 0, description |-> <<>>, hostname |-> None, filepath |-> None, metadata |-> EmptyMap, loaded |-> EmptyMap, pos |-> 0, saveOk |-> FALSE, status |-> 0, saw |-> NoBytes, renamed |-> FALSE, hadBackup |-> FALSE]

AllIdle == \A t \in Threads : th[t].pc = "idle"

\* f"{folder}_{filename}": the thumbnail's file name, and the head of an identifier
Key(folder, filename) == folder \o <<"_">> \o filename

\* f"{folder}_{filename}_{stamp}"
FileId(folder, filename, stamp) == Key(folder, filename) \o <<"_">> \o FloatStr(stamp)

\* strftime('%Y-%m-%d %H:%M:%S') of a timestamp
DateStr(stamp) == IntStr(stamp)

\* get_file_size(filepath): the size of what the file holds now
get_file_size(path) == IF path \in DOMAIN files THEN IntStr(files[path].content) \o <<".", "0", "0", " ", "B">> ELSE <<"Unknown">>

\* the outcomes an operation that can fail may still have: True, and False while
\* the environment has faults left to inject
Outcomes == IF nFaults < MaxFaults THEN BOOLEAN ELSE {TRUE}

Fault(ok) == nFaults' = IF ok THEN nFaults ELSE nFaults + 1

\* ------------------------------------------------------------ save_metadata
\* lines 86-94: the temporary file is removed if it is there, False is returned
SaveFailed(t) == /\ names' = [names EXCEPT !["tmp"] = Absent]
                 /\ fd' = [u \in Threads |-> IF u = t THEN "none" ELSE Removed(fd[u], "tmp")]
                 /\ th' = [th EXCEPT ![t].saveOk = FALSE, ![t].pc = "respond"]
                 /\ savedOk' = [savedOk EXCEPT !.last = th[t].metadata]
                 /\ UNCHANGED <<clock, files, thumbs, listRev, nUp, nExt, nReq, saved, okUploads, prevScan>>

\* line 75, open(temp_file, 'w'): creates the file, or empties the one that is there
SaveOpen(t) == /\ th[t].pc = "sv_open"
               /\ \E ok \in Outcomes :
                    /\ Fault(ok)
                    /\ IF ok
                       THEN /\ names' = [names EXCEPT !["tmp"] = [exists |-> TRUE, content |-> <<>>]]
                            /\ fd' = [fd EXCEPT ![t] = "tmp"]
                            /\ th' = [th EXCEPT ![t].pos = 0, ![t].pc = "sv_write"]
                            /\ UNCHANGED <<clock, files, thumbs, listRev, nUp, nExt, nReq, saved, savedOk, okUploads, prevScan>>
                       ELSE SaveFailed(t)

\* what a write of chunk c at offset pos leaves in a file
WriteAt(content, pos, c) == [i \in 1..(IF Len(content) > pos THEN Len(content) ELSE pos + 1) |-> IF i = pos + 1 THEN c ELSE IF i <= Len(content) THEN content[i] ELSE [kind |-> "hole", doc |-> EmptyMap, part |-> 0]]

\* line 76: one write of json.dump through the open handle; the with block
\* closes the handle after the last
SaveWrite(t) == /\ th[t].pc = "sv_write"
                /\ \E ok \in Outcomes :
                     /\ Fault(ok)
                     /\ IF ok
                        THEN LET doc == Dump(th[t].metadata)
                                 last == th[t].pos + 1 = Len(doc) IN
                             /\ names' = IF fd[t] \in DOMAIN names THEN [names EXCEPT ![fd[t]].content = WriteAt(@, th[t].pos, doc[th[t].pos + 1])] ELSE names
                             /\ fd' = [fd EXCEPT ![t] = IF last THEN "none" ELSE @]
                             /\ th' = [th EXCEPT ![t].pos = @ + 1, ![t].pc = IF last THEN "sv_replace" ELSE "sv_write"]
                             /\ UNCHANGED <<clock, files, thumbs, listRev, nUp, nExt, nReq, saved, savedOk, okUploads, prevScan>>
                        ELSE SaveFailed(t)

\* lines 79-85: os.replace / os.rename of the temporary file onto the metadata file
SaveReplace(t) == /\ th[t].pc = "sv_replace"
                  /\ IF Exists("tmp")
                     THEN /\ names' = [names EXCEPT !["meta"] = names["tmp"], !["tmp"] = Absent]
                          /\ fd' = [u \in Threads |-> Renamed(fd[u], "tmp", "meta")]
                          /\ th' = [th EXCEPT ![t].saveOk = TRUE, ![t].pc = "respond"]
                          /\ savedOk' = [some |-> TRUE, data |-> th[t].metadata, last |-> th[t].metadata]
                          /\ UNCHANGED <<clock, files, thumbs, listRev, nUp, nExt, nReq, saved, okUploads, prevScan>>
                     ELSE SaveFailed(t)
                  /\ UNCHANGED nFaults

\* ------------------------------------------------------------- upload_file
\* lines 258-294: validation and sanitization; a rejected request answers 400
UploadStart(t, rawfolder, rawfile, desc, resolves) ==
  /\ th[t].pc = "idle"
  /\ nUp < MaxUploads
  /\ nReq < MaxReq
  /\ nReq' = nReq + 1
  /\ LET foldername == sanitize_foldername(Strip(rawfolder, {" "}))
         filename == sanitize_filename(rawfile)
         bad == rawfile = <<>> \/ Strip(rawfolder, {" "}) = <<>> \/ foldername = None \/ filename = None IN
     IF bad
     THEN /\ th' = [th EXCEPT ![t] = [IdleLocals EXCEPT !.pc = "done", !.kind = "upload", !.status = 400]]
          /\ UNCHANGED nUp
     ELSE /\ th' = [th EXCEPT ![t] = [IdleLocals EXCEPT !.pc = "probe", !.kind = "upload", !.foldername = foldername, !.filename = filename, !.base_filename = filename, !.counter = 1, !.content = nUp + 1, !.description = desc, !.hostname = IF resolves THEN <<"Aman">> ELSE <<"Unknown">>, !.filepath = <<foldername, filename>>]]
          /\ nUp' = nUp + 1
  /\ UNCHANGED <<clock, files, thumbs, names, fd, listRev, nExt, nFaults, saved, savedOk, okUploads, prevScan>>

\* lines 296-300: one turn of the loop that looks for a free name
UploadProbe(t) ==
  /\ th[t].pc = "probe"
  /\ IF th[t].filepath \in DOMAIN files
     THEN LET parts == SplitExt(th[t].base_filename)
              filename == parts[1] \o <<"_">> \o IntStr(th[t].counter) \o parts[2] IN
          th' = [th EXCEPT ![t].filename = filename, ![t].filepath = <<th[t].foldername, filename>>, ![t].counter = @ + 1]
     ELSE th' = [th EXCEPT ![t].pc = "save"]
  /\ UNCHANGED <<clock, files, thumbs, names, fd, listRev, nUp, nExt, nReq, nFaults, saved, savedOk, okUploads, prevScan>>

\* line 303: file.save(filepath); a failure answers 500 (line 345)
UploadSave(t) ==
  /\ th[t].pc = "save"
  /\ \E ok \in Outcomes :
       /\ Fault(ok)
       /\ IF ok
          THEN /\ files' = Put(files, th[t].filepath, [mtime |-> clock, content |-> th[t].content])
               /\ saved' = saved \cup {<<th[t].filepath, th[t].content>>}
               /\ th' = [th EXCEPT ![t].pc = "thumb"]
               /\ prevScan' = [some |-> FALSE]
          ELSE /\ th' = [th EXCEPT ![t].pc = "done", ![t].status = 500]
               /\ UNCHANGED <<files, saved, prevScan>>
  /\ UNCHANGED <<clock, thumbs, names, fd, listRev, nUp, nExt, nReq, savedOk, okUploads>>

\* lines 306-313: the thumbnail of an image, written over whatever has its name;
\* create_thumbnail reports a failure and the upload goes on
UploadThumb(t) ==
  /\ th[t].pc = "thumb"
  /\ th' = [th EXCEPT ![t].pc = "load"]
  /\ IF is_image(th[t].filename)
     THEN \E ok \in IF th[t].filepath \in DOMAIN files THEN Outcomes ELSE {FALSE} :
            /\ nFaults' = IF ok \/ th[t].filepath \notin DOMAIN files THEN nFaults ELSE nFaults + 1
            /\ IF ok
               THEN thumbs' = Put(thumbs, Key(th[t].foldername, th[t].filename), [src |-> th[t].filepath, content |-> files[th[t].filepath].content])
               ELSE UNCHANGED thumbs
     ELSE UNCHANGED <<thumbs, nFaults>>
  /\ UNCHANGED <<clock, files, names, fd, listRev, nUp, nExt, nReq, saved, savedOk, okUploads, prevScan>>

\* lines 319-330
UploadRecord(t) == [folder |-> th[t].foldername, filename |-> th[t].filename, description |-> th[t].description, upload_date |-> DateStr(clock), filepath |-> th[t].filepath, thumbnail |-> IF is_image(th[t].filename) THEN Key(th[t].foldername, th[t].filename) ELSE None, uploaded_by |-> th[t].hostname, system_ip |-> IF th[t].hostname = <<"Aman">> THEN <<"ip">> ELSE <<"Unknown">>, file_size |-> get_file_size(th[t].filepath), is_image |-> is_image(th[t].filename)]

\* lines 316-330: load the metadata and put the record under the upload's identifier
UploadLoad(t) ==
  /\ th[t].pc = "load"
  /\ \E renameOk \in Outcomes :
       LET r == load_metadata(renameOk) IN
       /\ Backup(r)
       /\ nFaults' = IF r.tried /\ ~renameOk THEN nFaults + 1 ELSE nFaults
       /\ th' = [th EXCEPT ![t].loaded = r.data, ![t].saw = r.saw, ![t].renamed = r.renamed, ![t].hadBackup = Exists("backup"), ![t].metadata = Put(r.data, FileId(th[t].foldername, th[t].filename, clock), UploadRecord(t)), ![t].pc = "sv_open"]
  /\ UNCHANGED <<clock, files, thumbs, listRev, nUp, nExt, nReq, saved, savedOk, okUploads, prevScan>>

\* lines 332-343: the answer, 200 whether or not the metadata was saved
UploadRespond(t) ==
  /\ th[t].pc = "respond"
  /\ th[t].kind = "upload"
  /\ th' = [th EXCEPT ![t].pc = "done", ![t].status = 200]
  /\ okUploads' = okUploads + 1
  /\ UNCHANGED <<clock, files, thumbs, names, fd, listRev, nUp, nExt, nReq, nFaults, saved, savedOk, prevScan>>

\* ---------------------------------------------------------- scan_all_uploads
RECURSIVE SetToSeq(_)
SetToSeq(S) == IF S = {} THEN <<>> ELSE LET x == CHOOSE x \in S : TRUE IN <<x>> \o SetToSeq(S \ {x})

Reverse(q) == [i \in 1..Len(q) |-> q[Len(q) + 1 - i]]

\* os.listdir: the entries in the directory's own order
ListDir(S) == IF listRev THEN Reverse(SetToSeq(S)) ELSE SetToSeq(S)

RECURSIVE Flatten(_)
Flatten(qq) == IF qq = <<>> THEN <<>> ELSE Head(qq) \o Flatten(Tail(qq))

\* lines 142-148: the regular files one level below the upload root, as the two loops meet them
WalkOrder == Flatten([i \in 1..Len(ListDir({p[1] : p \in DOMAIN files})) |-> LET folder_name == ListDir({p[1] : p \in DOMAIN files})[i] IN [j \in 1..Len(ListDir({p[2] : p \in {q \in DOMAIN files : q[1] = folder_name}})) |-> <<folder_name, ListDir({p[2] : p \in {q \in DOMAIN files : q[1] = folder_name}})[j]>>]])

\* Variant of Retained for comparison: every loaded record is kept
RetainedAll(metadata) == metadata

\* lines 133-139: the records whose file is still there
Retained(metadata) == [k \in {x \in DOMAIN metadata : metadata[x].filepath \in DOMAIN files} |-> metadata[k]]

\* Variant of ScanId for comparison: the identifier is stamped with the time of the scan
ScanIdNow(path) == FileId(path[1], path[2], clock)

\* line 151
ScanId(path) == FileId(path[1], path[2], files[path].mtime)

\* lines 164-175
ScanRecord(path) == [folder |-> path[1], filename |-> path[2], description |-> <<"Auto-detected file">>, upload_date |-> DateStr(files[path].mtime), filepath |-> path, thumbnail |-> IF is_image(path[2]) THEN Key(path[1], path[2]) ELSE None, uploaded_by |-> <<"Unknown">>, system_ip |-> <<"Unknown">>, file_size |-> get_file_size(path), is_image |-> is_image(path[2])]

\* lines 149-175 for one file: st is [all_files, thumbs]; failing are the files
\* create_thumbnail cannot make a thumbnail of
ScanOne(st, path, failing) == IF ScanId(path) \in DOMAIN st.all_files THEN st ELSE [all_files |-> Put(st.all_files, ScanId(path), ScanRecord(path)), thumbs |-> IF is_image(path[2]) /\ Key(path[1], path[2]) \notin DOMAIN st.thumbs /\ path \notin failing THEN Put(st.thumbs, Key(path[1], path[2]), [src |-> path, content |-> files[path].content]) ELSE st.thumbs]

RECURSIVE ScanWalk(_, _, _)
ScanWalk(st, paths, failing) == IF paths = <<>> THEN st ELSE ScanWalk(ScanOne(st, Head(paths), failing), Tail(paths), failing)

\* line 130: a gallery request starts its scan by loading the metadata
GalleryStart(t) ==
  /\ th[t].pc = "idle"
  /\ nReq < MaxReq
  /\ nReq' = nReq + 1
  /\ \E renameOk \in Outcomes :
       LET r == load_metadata(renameOk) IN
       /\ Backup(r)
       /\ nFaults' = IF r.tried /\ ~renameOk THEN nFaults + 1 ELSE nFaults
       /\ th' = [th EXCEPT ![t] = [IdleLocals EXCEPT !.pc = "scan", !.kind = "gallery", !.loaded = r.data, !.saw = r.saw, !.renamed = r.renamed, !.hadBackup = Exists("backup")]]
  /\ UNCHANGED <<clock, files, thumbs, listRev, nUp, nExt, saved, savedOk, okUploads, prevScan>>

\* lines 131-178: prune, then walk the tree
Scan(t) ==
  /\ th[t].pc = "scan"
  /\ \E failing \in {f \in SUBSET {p \in DOMAIN files : is_image(p[2]) /\ Key(p[1], p[2]) \notin DOMAIN thumbs} : nFaults + Cardinality(f) <= MaxFaults} :
       LET st == ScanWalk([all_files |-> Retained(th[t].loaded), thumbs |-> thumbs], WalkOrder, failing) IN
       /\ thumbs' = st.thumbs
       /\ nFaults' = nFaults + Cardinality(failing)
       /\ th' = [th EXCEPT ![t].metadata = st.all_files, ![t].pc = "sv_open"]
  /\ UNCHANGED <<clock, files, names, fd, listRev, nUp, nExt, nReq, saved, savedOk, okUploads, prevScan>>

\* lines 353-390: the listing of what the scan returned
GalleryRespond(t) ==
  /\ th[t].pc = "respond"
  /\ th[t].kind = "gallery"
  /\ th' = [th EXCEPT ![t].pc = "done", ![t].status = 200]
  /\ UNCHANGED <<clock, files, thumbs, names, fd, listRev, nUp, nExt, nReq, nFaults, saved, savedOk, okUploads, prevScan>>

\* the request is over and its thread is free again
Finish(t) ==
  /\ th[t].pc = "done"
  /\ th' = [th EXCEPT ![t] = IdleLocals]
  /\ prevScan' = IF th[t].kind = "gallery" THEN [some |-> TRUE, ret |-> th[t].metadata, persisted |-> names["meta"], saveOk |-> th[t].saveOk] ELSE prevScan
  /\ UNCHANGED <<clock, files, thumbs, names, fd, listRev, nUp, nExt, nReq, nFaults, saved, savedOk, okUploads>>

\* ------------------------------------------------------------ environment
Tick ==
  /\ clock < MaxClock
  /\ clock' = clock + 1
  /\ UNCHANGED <<files, thumbs, names, fd, listRev, th, nUp, nExt, nReq, nFaults, saved, savedOk, okUploads, prevScan>>

\* a file is removed from the upload tree
ExtDelete(path) ==
  /\ nExt < MaxExt
  /\ path \in DOMAIN files
  /\ files' = [q \in DOMAIN files \ {path} |-> files[q]]
  /\ nExt' = nExt + 1
  /\ prevScan' = [some |-> FALSE]
  /\ UNCHANGED <<clock, thumbs, names, fd, listRev, th, nUp, nReq, nFaults, saved, savedOk, okUploads>>

\* a file of the upload tree is modified in place
ExtTouch(path) ==
  /\ nExt < MaxExt
  /\ path \in DOMAIN files
  /\ files[path].mtime # clock
  /\ files' = [files EXCEPT ![path].mtime = clock]
  /\ nExt' = nExt + 1
  /\ prevScan' = [some |-> FALSE]
  /\ UNCHANGED <<clock, thumbs, names, fd, listRev, th, nUp, nReq, nFaults, saved, savedOk, okUploads>>

\* the metadata file is damaged or replaced from outside
ExtCorrupt(kind) ==
  /\ nExt < MaxExt
  /\ names' = [names EXCEPT !["meta"] = [exists |-> TRUE, content |-> <<[kind |-> kind, doc |-> EmptyMap, part |-> nExt]>>]]
  /\ nExt' = nExt + 1
  /\ prevScan' = [some |-> FALSE]
  /\ UNCHANGED <<clock, files, thumbs, fd, listRev, th, nUp, nReq, nFaults, saved, savedOk, okUploads>>

\* ---------------------------------------------------------- specifications
\* an empty store, no request under way
InitStore ==
  /\ clock = 0
  /\ files = EmptyMap
  /\ thumbs = EmptyMap
  /\ names = [n \in {"meta", "tmp", "backup"} |-> Absent]
  /\ fd = [t \in Threads |-> "none"]
  /\ listRev \in BOOLEAN
  /\ th = [t \in Threads |-> IdleLocals]
  /\ nUp = 0
  /\ nExt = 0
  /\ saved = {}
  /\ savedOk = [some |-> FALSE, data |-> EmptyMap, last |-> EmptyMap]
  /\ okUploads = 0
  /\ prevScan = [some |-> FALSE]

Init == InitStore /\ nReq = 0 /\ nFaults = 0

\* one step of a request that is under way
Step(t) == UploadProbe(t) \/ UploadSave(t) \/ UploadThumb(t) \/ UploadLoad(t) \/ SaveOpen(t) \/ SaveWrite(t) \/ SaveReplace(t) \/ UploadRespond(t) \/ Scan(t) \/ GalleryRespond(t) \/ Finish(t)

Upload(t) == \E form \in Forms, resolves \in BOOLEAN : UploadStart(t, form.foldername, form.filename, form.description, resolves)

\* requests served one at a time, the files changing from outside only between requests
SeqUpload == AllIdle /\ Upload(1)

SeqGallery == AllIdle /\ GalleryStart(1)

EnvDelete == AllIdle /\ \E path \in DOMAIN files : ExtDelete(path)

EnvTouch == AllIdle /\ \E path \in DOMAIN files : ExtTouch(path)

EnvCorrupt == AllIdle /\ \E kind \in {"badjson", "badutf8", "nondict"} : ExtCorrupt(kind)

Next == SeqUpload \/ SeqGallery \/ (\E t \in Threads : Step(t)) \/ Tick \/ EnvDelete \/ EnvTouch \/ EnvCorrupt

Spec == Init /\ [][Next]_vars

\* requests served on concurrent threads (app.run(threaded=True), line 458): one
\* request for each thread, no operation made to fail, no change from outside
InitConc == InitStore /\ nReq = MaxReq - NThreads /\ nFaults = MaxFaults

NextConc == (\E t \in Threads : Upload(t) \/ GalleryStart(t) \/ Step(t)) \/ Tick

SpecConc == InitConc /\ [][NextConc]_vars

\* ------------------------------------------------------------------ properties
GalleryDone(t) == th[t].pc = "done" /\ th[t].kind = "gallery"

\* C1: a scan_all_uploads that follows another with no change to the files in
\* between returns the mapping the first returned, and when the first wrote the
\* metadata file the second leaves that same document persisted.
C1_Idempotent == \A t \in Threads : (GalleryDone(t) /\ prevScan.some) => (th[t].metadata = prevScan.ret /\ (prevScan.saveOk => (names["meta"] = prevScan.persisted /\ names["meta"].content = Dump(th[t].metadata))))

\* a second scan in a row has returned a mapping with two records or more
C1_Witness == \E t \in Threads : GalleryDone(t) /\ prevScan.some /\ prevScan.saveOk /\ th[t].saveOk /\ Cardinality(DOMAIN th[t].metadata) >= 2

\* C2: every record of the mapping a scan returns has a filepath that is on disk,
\* so a record whose file was deleted is gone; the same holds of what it persists.
C2_StalePruned == \A t \in Threads : (th[t].kind = "gallery" /\ th[t].pc \in {"sv_open", "sv_write", "sv_replace", "respond", "done"}) => ((\A k \in DOMAIN th[t].metadata : th[t].metadata[k].filepath \in DOMAIN files) /\ ((th[t].pc \in {"respond", "done"} /\ th[t].saveOk) => names["meta"].content = Dump(th[t].metadata)))

\* a scan has loaded a record whose file was deleted, and has returned
C2_Witness == \E t \in Threads : GalleryDone(t) /\ th[t].saveOk /\ \E k \in DOMAIN th[t].loaded : th[t].loaded[k].filepath \notin DOMAIN files /\ k \notin DOMAIN th[t].metadata

\* C3: after a scan every regular file of the upload tree is the filepath of a
\* record of the returned mapping.
C3_AllFilesListed == \A t \in Threads : GalleryDone(t) => \A p \in DOMAIN files : \E k \in DOMAIN th[t].metadata : th[t].metadata[k].filepath = p

\* C4: no two uploads write the same path: every upload that saved its file has
\* a file of its own on disk.
C4_NoOverwrite == \A x \in saved : \A y \in saved : x[1] = y[1] => x = y

\* C5 as claimed: whenever load_metadata met content that is no valid JSON
\* document it returned the empty mapping and that content is under the backup name,
\* through the save that follows.
C5_BackupAlways == \A t \in Threads : th[t].saw.some => (th[t].loaded = EmptyMap /\ names["backup"] = [exists |-> TRUE, content |-> th[t].saw.content])

\* C5 as amended: load_metadata returned the empty mapping; if it renamed the file
\* (JSONDecodeError, and os.rename succeeded) the content is under the backup name
\* through the save that follows, replacing an earlier backup; if it did not, the
\* content is not under the backup name, it stays at the metadata path and the next
\* successful save overwrites it.
C5_BackupWhenRenamed == \A t \in Threads : th[t].saw.some => (/\ th[t].loaded = EmptyMap
                                                              /\ th[t].renamed => (names["backup"] = [exists |-> TRUE, content |-> th[t].saw.content] /\ Parse(th[t].saw.content).is = "JSONDecodeError")
                                                              /\ ~th[t].renamed => (names["backup"].content # th[t].saw.content /\ IF th[t].saveOk THEN names["meta"].content = Dump(th[t].metadata) ELSE names["meta"].content = th[t].saw.content))

\* a corrupt file went over the backup of an earlier corruption, and the save that
\* followed has succeeded
C5_Witness == \E t \in Threads : th[t].pc = "done" /\ th[t].saw.some /\ th[t].renamed /\ th[t].hadBackup /\ th[t].saveOk /\ names["backup"].content = th[t].saw.content

\* C6: with no change to the files but the uploads, and no operation that failed,
\* the gallery lists one record for each upload that was answered 200.
C6_OneRecordPerUpload == \A t \in Threads : (GalleryDone(t) /\ nExt = 0 /\ nFaults = 0) => Cardinality(DOMAIN th[t].metadata) = okUploads

\* C7: the mapping a scan returns does not hold a file's current discovered
\* identifier together with a discovered record of that file under the identifier
\* of an earlier modification time.
C7_OldRevisionPruned == \A t \in Threads : GalleryDone(t) => \A p \in DOMAIN files : \A k \in DOMAIN th[t].metadata : (th[t].metadata[k].filepath = p /\ th[t].metadata[k].description = <<"Auto-detected file">> /\ ScanId(p) \in DOMAIN th[t].metadata) => k = ScanId(p)

\* C8: the file at the metadata path is absent or a complete document, the
\* mapping of one save_metadata call.
C8_AtomicPersistence == Exists("meta") => Parse(names["meta"].content).is = "dict"

\* C9: once every request has finished, the persisted mapping is the one saved by
\* the operation whose save completed last: the document of the last save_metadata
\* that returned True or, read most generously, of the last that returned at all.
C9_LastWriterWins == ((\A t \in Threads : th[t].pc \in {"idle", "done"}) /\ savedOk.some) => (Exists("meta") /\ names["meta"].content \in {Dump(savedOk.data), Dump(savedOk.last)})

\* C10: two stored files with different (folder, filename) have different keys
\* folder_filename, hence different thumbnail names.
C10_KeyInjective == \A p \in DOMAIN files : \A q \in DOMAIN files : p # q => Key(p[1], p[2]) # Key(q[1], q[2])
====
